---- MODULE Spec2Model ----
(***************************************************************************)
(* Streaming footprints conformance checker                                *)
(* (pm4py/streaming/algo/conformance/footprints/variants/classic.py).      *)
(*                                                                         *)
(* The object FootprintsStreamingConformance is the record `self`; every   *)
(* method is an operator from an execution record                          *)
(*     [self, raised, ret, calls, diagn_stream]                            *)
(* to an execution record, written statement by statement after the        *)
(* Python; every public method is one action.  Python's None, True and     *)
(* False are the strings "None", "True", "False"; a dict lookup of a       *)
(* missing key raises "KeyError" and ends the method.                      *)
(***************************************************************************)
EXTENDS Integers, Sequences, FiniteSets, TLC

\* ------------------------------------------------------------------ bounds

\* Events (with a case and an activity) kept in the recorded lifetimes of
\* all cases together; receive of such an event is disabled beyond it.
MaxEvents == 3

\* ------------------------------------------------------- inputs enumerated

None == "None"

Cases == {"c1", "c2"}

\* Activity labels an event may carry.
Labels == {"A", "B", "C", "X"}

\* Footprints handed to the constructor: the reference footprint (A;B;C),
\* one with a parallel pair given in one orientation only, and one that is
\* not well formed (a start and an end activity outside the vocabulary).
Footprints ==
    { [activities |-> {"A", "B", "C"}, start_activities |-> {"A"},
       end_activities |-> {"C"},
       sequence |-> {<<"A", "B">>, <<"B", "C">>}, parallel |-> {}],
      [activities |-> {"A", "B", "C"}, start_activities |-> {"A", "B"},
       end_activities |-> {"B", "C"},
       sequence |-> {<<"A", "B">>}, parallel |-> {<<"B", "C">>}],
      [activities |-> {"A", "B"}, start_activities |-> {"A", "C"},
       end_activities |-> {"B", "C"},
       sequence |-> {<<"A", "B">>, <<"B", "C">>}, parallel |-> {}] }

\* Field names of an event (the defaults of the two parameters).
case_id_key == "case:concept:name"
activity_key == "concept:name"

\* An event is a dictionary: each of the two fields is absent, None or set.
WellTyped(event) ==
    /\ case_id_key \in DOMAIN event => event[case_id_key] \in Cases \cup {None}
    /\ activity_key \in DOMAIN event => event[activity_key] \in Labels \cup {None}

Events ==
    { event \in UNION { [D -> Cases \cup Labels \cup {None}] :
                        D \in SUBSET {case_id_key, activity_key} } :
      WellTyped(event) }

\* ------------------------------------------------------------- Python dict

\* dev_dict: a dict whose order of keys is never read, a finite function.
EmptyDict == [k \in {} |-> 0]

DictSet(d, k, v) == [x \in (DOMAIN d) \cup {k} |-> IF x = k THEN v ELSE d[x]]

DictDel(d, k) == [x \in (DOMAIN d) \ {k} |-> d[x]]

\* case_dict: a dict whose keys() are listed, so kept in insertion order as
\* a sequence of entries [key, value].
KeyList(od) == [i \in 1..Len(od) |-> od[i].key]

KeySet(od) == {od[i].key : i \in 1..Len(od)}

HasKey(od, k) == k \in KeySet(od)

Lookup(od, k) == (CHOOSE i \in 1..Len(od) : od[i].key = k)

Value(od, k) == od[Lookup(od, k)].value

\* od[k] = v: an existing key keeps its place, a new key goes last.
Store(od, k, v) ==
    IF HasKey(od, k)
    THEN [od EXCEPT ![Lookup(od, k)].value = v]
    ELSE Append(od, [key |-> k, value |-> v])

\* del od[k]
Remove(od, k) == SelectSeq(od, LAMBDA e : e.key # k)

\* ------------------------------------------------------------ the object

\* Mutant of __init__: the parallel pairs are left out of all_fps.
Construct_SequenceOnly(footprints) ==
    [ footprints       |-> footprints,
      start_activities |-> footprints.start_activities,
      end_activities   |-> footprints.end_activities,
      activities       |-> footprints.activities,
      all_fps          |-> footprints.sequence,
      case_dict        |-> << >>,
      dev_dict         |-> EmptyDict ]

\* __init__
Construct(footprints) ==
    [ footprints       |-> footprints,
      start_activities |-> footprints.start_activities,
      end_activities   |-> footprints.end_activities,
      activities       |-> footprints.activities,
      all_fps          |-> footprints.sequence \cup footprints.parallel,
      case_dict        |-> << >>,
      dev_dict         |-> EmptyDict ]

\* Entry of a method: nothing raised, nothing returned, no nested call made,
\* the local diagn_stream empty.
Call(obj) ==
    [self |-> obj, raised |-> None, ret |-> None, calls |-> << >>,
     diagn_stream |-> << >>]

\* self.dev_dict[case] = 0
DevReset(x, case) ==
    IF x.raised # None THEN x
    ELSE [x EXCEPT !.self.dev_dict = DictSet(@, case, 0)]

\* Mutant of DevIncr: the increment reaches the counter of every case.
DevIncr_EveryCase(x, case) ==
    IF x.raised # None THEN x
    ELSE IF case \in DOMAIN x.self.dev_dict
         THEN [x EXCEPT !.self.dev_dict =
                   [k \in DOMAIN @ |-> @[k] + 1]]
         ELSE [x EXCEPT !.raised = "KeyError"]

\* self.dev_dict[case] += 1
DevIncr(x, case) ==
    IF x.raised # None THEN x
    ELSE IF case \in DOMAIN x.self.dev_dict
         THEN [x EXCEPT !.self.dev_dict[case] = @ + 1]
         ELSE [x EXCEPT !.raised = "KeyError"]

\* Mutant of CaseStore: the activity is stored for a new case only.
CaseStore_KeepsFirst(x, case, activity) ==
    IF x.raised # None \/ HasKey(x.self.case_dict, case) THEN x
    ELSE [x EXCEPT !.self.case_dict = Store(@, case, activity)]

\* self.case_dict[case] = activity
CaseStore(x, case, activity) ==
    IF x.raised # None THEN x
    ELSE [x EXCEPT !.self.case_dict = Store(@, case, activity)]

verify_start_case(x, case, activity) ==
    IF activity \notin x.self.start_activities
    THEN DevIncr(x, case)
    ELSE x

\* Mutant of verify_intra_case: the pair is built the wrong way round.
verify_intra_case_Swapped(x, case, activity) ==
    IF ~HasKey(x.self.case_dict, case)
    THEN [x EXCEPT !.raised = "KeyError"]
    ELSE LET prev == Value(x.self.case_dict, case)
             df   == <<activity, prev>>
         IN  IF df \notin x.self.all_fps THEN DevIncr(x, case) ELSE x

verify_intra_case(x, case, activity) ==
    IF ~HasKey(x.self.case_dict, case)
    THEN [x EXCEPT !.raised = "KeyError"]
    ELSE LET prev == Value(x.self.case_dict, case)
             df   == <<prev, activity>>
         IN  IF df \notin x.self.all_fps THEN DevIncr(x, case) ELSE x

\* Mutant of verify_footprints: the counter is reset on every event.
verify_footprints_AlwaysResets(x, case, activity) ==
    LET x1 == DevReset(x, case)
    IN  IF activity \in x1.self.activities
        THEN LET x2 == IF ~HasKey(x1.self.case_dict, case)
                       THEN verify_start_case(x1, case, activity)
                       ELSE verify_intra_case(x1, case, activity)
             IN  CaseStore(x2, case, activity)
        ELSE DevIncr(x1, case)

\* Mutant of verify_footprints: the counter of a new case is not set up.
verify_footprints_NoCounter(x, case, activity) ==
    IF activity \in x.self.activities
    THEN LET x2 == IF ~HasKey(x.self.case_dict, case)
                   THEN verify_start_case(x, case, activity)
                   ELSE verify_intra_case(x, case, activity)
         IN  CaseStore(x2, case, activity)
    ELSE DevIncr(x, case)

\* Mutant of verify_footprints: an unknown activity is stored as the last
\* activity too.
verify_footprints_StoresUnknown(x, case, activity) ==
    LET x1 == IF ~HasKey(x.self.case_dict, case) THEN DevReset(x, case) ELSE x
    IN  IF activity \in x1.self.activities
        THEN LET x2 == IF ~HasKey(x1.self.case_dict, case)
                       THEN verify_start_case(x1, case, activity)
                       ELSE verify_intra_case(x1, case, activity)
             IN  CaseStore(x2, case, activity)
        ELSE CaseStore(DevIncr(x1, case), case, activity)

verify_footprints(x, case, activity) ==
    LET x1 == IF ~HasKey(x.self.case_dict, case) THEN DevReset(x, case) ELSE x
    IN  IF activity \in x1.self.activities
        THEN LET x2 == IF ~HasKey(x1.self.case_dict, case)
                       THEN verify_start_case(x1, case, activity)
                       ELSE verify_intra_case(x1, case, activity)
             IN  CaseStore(x2, case, activity)
        ELSE DevIncr(x1, case)

\* The field of an event as check reads it: None when absent.
Field(event, key) == IF key \in DOMAIN event THEN event[key] ELSE None

\* Mutant of check: one of the two fields is enough.
check_EitherField(x, event) ==
    LET case     == Field(event, case_id_key)
        activity == Field(event, activity_key)
    IN  IF case # None \/ activity # None
        THEN verify_footprints(x, case, activity)
        ELSE x

check(x, event) ==
    LET case     == Field(event, case_id_key)
        activity == Field(event, activity_key)
    IN  IF case # None /\ activity # None
        THEN verify_footprints(x, case, activity)
        ELSE x

receive(x, event) == check(x, event)

\* num_dev = self.dev_dict[case]; return True if num_dev == 0 else False
ReturnNoDeviations(x, case) ==
    IF x.raised # None THEN x
    ELSE IF case \notin DOMAIN x.self.dev_dict
         THEN [x EXCEPT !.raised = "KeyError"]
         ELSE [x EXCEPT !.ret = IF x.self.dev_dict[case] = 0
                                THEN "True" ELSE "False"]

\* Mutant of get_status: the count of the case is set to 0 on the way out.
get_status_ResetsCounter(x, case) ==
    IF HasKey(x.self.case_dict, case)
    THEN DevReset(ReturnNoDeviations([x EXCEPT !.ret = None], case), case)
    ELSE [x EXCEPT !.ret = None]

\* Mutant of get_status: a case that is not open is reported as not fit.
get_status_UnknownIsFalse(x, case) ==
    IF HasKey(x.self.case_dict, case)
    THEN ReturnNoDeviations([x EXCEPT !.ret = None], case)
    ELSE [x EXCEPT !.ret = "False"]

get_status(x, case) ==
    IF HasKey(x.self.case_dict, case)
    THEN ReturnNoDeviations([x EXCEPT !.ret = None], case)
    ELSE [x EXCEPT !.ret = None]

\* Mutant of DelCase: the last activity of the case is left behind.
DelCase_KeepsLastActivity(x, case) ==
    IF x.raised # None THEN x
    ELSE [x EXCEPT !.self.dev_dict = DictDel(@, case)]

\* del self.case_dict[case]; del self.dev_dict[case]
DelCase(x, case) ==
    IF x.raised # None THEN x
    ELSE [x EXCEPT !.self.case_dict = Remove(@, case),
                   !.self.dev_dict = DictDel(@, case)]

\* Mutant of terminate: the end activity is not checked.
terminate_NoEndCheck(x, case) ==
    IF HasKey(x.self.case_dict, case)
    THEN LET x2 == ReturnNoDeviations([x EXCEPT !.ret = None], case)
         IN  IF x2.raised # None THEN x2
             ELSE [DelCase(x2, case) EXCEPT !.ret = x2.ret]
    ELSE [x EXCEPT !.ret = None]

\* Mutant of terminate: the verdict is returned and the entries are kept.
terminate_KeepsRecord(x, case) ==
    IF HasKey(x.self.case_dict, case)
    THEN LET curr == Value(x.self.case_dict, case)
             x1 == IF curr \notin x.self.end_activities
                   THEN DevIncr(x, case) ELSE x
         IN  ReturnNoDeviations([x1 EXCEPT !.ret = None], case)
    ELSE [x EXCEPT !.ret = None]

terminate(x, case) ==
    IF HasKey(x.self.case_dict, case)
    THEN LET curr == Value(x.self.case_dict, case)
             x1 == IF curr \notin x.self.end_activities
                   THEN DevIncr(x, case) ELSE x
             \* num_dev is read before the two entries are deleted
             x2 == ReturnNoDeviations([x1 EXCEPT !.ret = None], case)
         IN  IF x2.raised # None THEN x2
             ELSE [DelCase(x2, case) EXCEPT !.ret = x2.ret]
    ELSE [x EXCEPT !.ret = None]

\* for case in cases: self.terminate(case); the result of each call is
\* recorded in calls (the method itself drops it).
RECURSIVE TerminateEach(_, _)
TerminateEach(x, cases) ==
    IF cases = << >> \/ x.raised # None THEN x
    ELSE LET y == terminate(x, Head(cases))
         IN  TerminateEach(
                 [y EXCEPT !.calls = Append(@, [case |-> Head(cases),
                                                ret |-> y.ret])],
                 Tail(cases))

\* Mutant of terminate_all: the deviation counts of all cases are dropped.
terminate_all_ClearsCounters(x) ==
    LET cases == KeyList(x.self.case_dict)
    IN  [TerminateEach(x, cases) EXCEPT !.ret = None,
                                        !.self.dev_dict = EmptyDict]

\* Mutant of terminate_all: the loop stops after the first case.
terminate_all_FirstOnly(x) ==
    LET cases == KeyList(x.self.case_dict)
        first == IF cases = << >> THEN << >> ELSE <<Head(cases)>>
    IN  [TerminateEach(x, first) EXCEPT !.ret = None]

terminate_all(x) ==
    LET cases == KeyList(x.self.case_dict)
    IN  [TerminateEach(x, cases) EXCEPT !.ret = None]

\* for case in cases: status = self.get_status(case); diagn_stream.append(..)
RECURSIVE StatusEach(_, _)
StatusEach(x, cases) ==
    IF cases = << >> \/ x.raised # None THEN x
    ELSE LET y == get_status(x, Head(cases))
         IN  StatusEach(
                 [y EXCEPT !.diagn_stream =
                      Append(@, [case |-> Head(cases), is_fit |-> y.ret])],
                 Tail(cases))

\* The elements of a set in some order.
RECURSIVE SetToSeq(_)
SetToSeq(S) ==
    IF S = {} THEN << >>
    ELSE LET e == CHOOSE e \in S : TRUE
         IN  <<e>> \o SetToSeq(S \ {e})

\* Mutant of get_diagnostics_dataframe: the cases are those of dev_dict.
get_diagnostics_dataframe_OverDevDict(x) ==
    LET cases == SetToSeq(DOMAIN x.self.dev_dict)
    IN  [StatusEach(x, cases) EXCEPT !.ret = None]

get_diagnostics_dataframe(x) ==
    LET cases == KeyList(x.self.case_dict)
    IN  [StatusEach(x, cases) EXCEPT !.ret = None]

\* ------------------------------------------------------------------ state

VARIABLES
    self,     \* the FootprintsStreamingConformance object
    raised,   \* the exception the last call raised, or None
    ret,      \* what the last get_status or terminate returned
    calls,    \* the terminate calls the last terminate_all made, with results
    diagn,    \* the records of the last get_diagnostics_dataframe
    op,       \* the last call: its name, the case it was about and, for
              \* receive, whether the event was dropped and whether it was
              \* the first event of the case since terminate ended its
              \* previous lifetime
    trace,    \* per case: the activities received in its latest lifetime
    verdict   \* per case: what the terminate that ended that lifetime
              \* returned, None while no terminate has ended it

vars == <<self, raised, ret, calls, diagn, op, trace, verdict>>

Init ==
    /\ \E footprints \in Footprints : self = Construct(footprints)
    /\ raised = None
    /\ ret = None
    /\ calls = << >>
    /\ diagn = << >>
    /\ op = [name |-> "__init__", case |-> None, dropped |-> FALSE,
                  reopens |-> FALSE]
    /\ trace = [c \in Cases |-> << >>]
    /\ verdict = [c \in Cases |-> None]

\* The result of a call becomes the state.
Returns(x) ==
    /\ self' = x.self
    /\ raised' = x.raised
    /\ ret' = x.ret
    /\ calls' = x.calls
    /\ diagn' = x.diagn_stream

RECURSIVE SumLen(_, _)
SumLen(tr, S) ==
    IF S = {} THEN 0
    ELSE LET c == CHOOSE c \in S : TRUE
         IN  Len(tr[c]) + SumLen(tr, S \ {c})

\* The lifetime of a case as recorded after one more event: an ended
\* lifetime is over, so the event starts the next one.
Extend(tr, vd, case, activity) ==
    [tr EXCEPT ![case] = IF vd[case] # None THEN <<activity>>
                         ELSE Append(@, activity)]

Receive(event) ==
    LET case     == Field(event, case_id_key)
        activity == Field(event, activity_key)
        wellformed == case # None /\ activity # None
    IN  /\ wellformed => SumLen(Extend(trace, verdict, case, activity), Cases)
                             <= MaxEvents
        /\ Returns(receive(Call(self), event))
        /\ op' = [name |-> "receive", case |-> case, dropped |-> ~wellformed,
                  reopens |-> wellformed /\ verdict[case] # None]
        /\ trace' = IF wellformed THEN Extend(trace, verdict, case, activity)
                    ELSE trace
        /\ verdict' = IF wellformed THEN [verdict EXCEPT ![case] = None]
                      ELSE verdict

GetStatus(case) ==
    /\ Returns(get_status(Call(self), case))
    /\ op' = [name |-> "get_status", case |-> case, dropped |-> FALSE,
                  reopens |-> FALSE]
    /\ UNCHANGED <<trace, verdict>>

Terminate(case) ==
    LET x == terminate(Call(self), case)
    IN  /\ Returns(x)
        /\ op' = [name |-> "terminate", case |-> case, dropped |-> FALSE,
                  reopens |-> FALSE]
        /\ verdict' = [verdict EXCEPT ![case] = IF x.ret # None THEN x.ret
                                                ELSE @]
        /\ UNCHANGED trace

TerminateAll ==
    LET x == terminate_all(Call(self))
    IN  /\ Returns(x)
        /\ op' = [name |-> "terminate_all", case |-> None, dropped |-> FALSE,
                  reopens |-> FALSE]
        /\ verdict' = [c \in Cases |->
                          IF \E i \in 1..Len(x.calls) :
                                 x.calls[i].case = c /\ x.calls[i].ret # None
                          THEN LET i == CHOOSE i \in 1..Len(x.calls) :
                                            x.calls[i].case = c
                                            /\ x.calls[i].ret # None
                               IN  x.calls[i].ret
                          ELSE verdict[c]]
        /\ UNCHANGED trace

GetDiagnosticsDataframe ==
    /\ Returns(get_diagnostics_dataframe(Call(self)))
    /\ op' = [name |-> "get_diagnostics_dataframe", case |-> None,
              dropped |-> FALSE,
                  reopens |-> FALSE]
    /\ UNCHANGED <<trace, verdict>>

Next ==
    \/ \E event \in Events : Receive(event)
    \/ \E case \in Cases : GetStatus(case)
    \/ \E case \in Cases : Terminate(case)
    \/ TerminateAll
    \/ GetDiagnosticsDataframe

Spec == Init /\ [][Next]_vars

\* ------------------------------------------------- the history of a case

OpenCases == KeySet(self.case_dict)

\* The legal directly-follows pairs of the footprint given to __init__.
AllowedPairs == self.footprints.sequence \cup self.footprints.parallel

IsKnown(a) == a \in self.footprints.activities

\* The activities of tr that belong to the vocabulary, in order.
Recognized(tr) == SelectSeq(tr, IsKnown)

\* tr holds an unknown activity, starts (among its recognized activities)
\* with an illegal start, or holds an illegal consecutive recognized pair.
HasViolation(tr) ==
    LET rec == Recognized(tr)
    IN  \/ \E i \in 1..Len(tr) : ~IsKnown(tr[i])
        \/ rec # << >> /\ rec[1] \notin self.footprints.start_activities
        \/ \E i \in 1..(Len(rec) - 1) : <<rec[i], rec[i + 1]>> \notin AllowedPairs

\* The last recognized activity of tr is no end activity.
HasIllegalEnd(tr) ==
    LET rec == Recognized(tr)
    IN  rec # << >> /\ rec[Len(rec)] \notin self.footprints.end_activities

WellFormed ==
    LET fp == self.footprints
    IN  /\ fp.start_activities \subseteq fp.activities
        /\ fp.end_activities \subseteq fp.activities
        /\ \A df \in AllowedPairs : df[1] \in fp.activities
                                    /\ df[2] \in fp.activities

\* tr starts with a start activity and every consecutive pair is allowed.
FitSoFar(tr) ==
    /\ tr # << >>
    /\ tr[1] \in self.footprints.start_activities
    /\ \A i \in 1..(Len(tr) - 1) : <<tr[i], tr[i + 1]>> \in AllowedPairs

EndsLegally(tr) ==
    tr # << >> /\ tr[Len(tr)] \in self.footprints.end_activities

\* ----------------------------------------------------------------- claims

\* C1: any single violation among the events of a case (an unknown
\* activity, an illegal start, an illegal consecutive pair) or an illegal
\* end makes terminate of the open case return False, and once a violation
\* has occurred neither get_status nor terminate of the case returns True.
C1_AnyViolationIsNotFit ==
    \A c \in Cases :
        LET bad == HasViolation(trace[c]) \/ HasIllegalEnd(trace[c])
        IN  /\ (bad /\ verdict[c] # None) => verdict[c] = "False"
            /\ (bad /\ verdict[c] = None /\ c \in OpenCases)
                   => terminate(Call(self), c).ret = "False"
            /\ (HasViolation(trace[c]) /\ verdict[c] = None)
                   => /\ get_status(Call(self), c).ret # "True"
                      /\ terminate(Call(self), c).ret # "True"

\* C2: under a well-formed footprint, a case whose events so far start with
\* a start activity and follow allowed pairs only is open with deviation
\* count 0 (get_status is True) after every event, and terminate returns
\* True when the last activity is an end activity, whatever the other
\* cases received in between.
C2_FitCaseIsFit ==
    \A c \in Cases :
        (WellFormed /\ FitSoFar(trace[c])) =>
            /\ verdict[c] = None =>
                   /\ c \in OpenCases
                   /\ c \in DOMAIN self.dev_dict /\ self.dev_dict[c] = 0
                   /\ get_status(Call(self), c).ret = "True"
            /\ (verdict[c] = None /\ EndsLegally(trace[c]))
                   => terminate(Call(self), c).ret = "True"
            /\ (verdict[c] # None /\ EndsLegally(trace[c]))
                   => verdict[c] = "True"

\* C2 witness: c1 received a fit sequence of two or more events with an
\* event of c2 in the store, and terminate(c1) has returned True.
C2_Witness ==
    /\ WellFormed /\ FitSoFar(trace["c1"]) /\ EndsLegally(trace["c1"])
    /\ Len(trace["c1"]) >= 2 /\ trace["c2"] # << >> /\ verdict["c2"] = None
    /\ op.name = "terminate" /\ op.case = "c1"
    /\ ret = "True" /\ verdict["c1"] = "True"

\* C3: once terminate has ended the lifetime of a case, and until its next
\* event, get_status and terminate of that case return None, raise nothing
\* and leave the object as it is.
C3_ClosedCaseIsUnknown ==
    \A c \in Cases :
        verdict[c] # None =>
            LET g == get_status(Call(self), c)
                t == terminate(Call(self), c)
            IN  /\ g.ret = None /\ g.raised = None /\ g.self = self
                /\ t.ret = None /\ t.raised = None /\ t.self = self
                /\ c \notin OpenCases

\* C3 witness: a second terminate of a terminated case has returned None
\* while another case is open.
C3_Witness ==
    /\ verdict["c1"] # None
    /\ op.name = "terminate" /\ op.case = "c1" /\ ret = None
    /\ "c2" \in OpenCases

\* C4: while a case stays open its deviation count never decreases,
\* whatever the step (receive, get_status, get_diagnostics_dataframe,
\* terminate or terminate_all).
C4_DeviationsNeverDecrease ==
    [][\A c \in Cases :
          (c \in OpenCases /\ c \in OpenCases')
              => self'.dev_dict[c] >= self.dev_dict[c]]_vars

\* C4 witness: c1 is open with two deviations counted and the last call
\* terminated the other case with a verdict.
C4_Witness ==
    /\ "c1" \in OpenCases /\ self.dev_dict["c1"] >= 2
    /\ op.name = "terminate" /\ op.case = "c2" /\ ret # None

MkEvent(case, activity) ==
    [k \in {case_id_key, activity_key} |->
        IF k = case_id_key THEN case ELSE activity]

\* receive of the events (case, tr[1]), (case, tr[2]), ... in turn.
RECURSIVE ReceiveAll(_, _, _)
ReceiveAll(x, case, tr) ==
    IF tr = << >> THEN x
    ELSE ReceiveAll(receive(x, MkEvent(case, Head(tr))), case, Tail(tr))

\* The object that received the events of the latest lifetime of c and
\* nothing else (nothing at all once terminate has ended that lifetime).
Alone(c) ==
    IF verdict[c] # None THEN Construct(self.footprints)
    ELSE ReceiveAll(Call(Construct(self.footprints)), c, trace[c]).self

\* What an object stores for a case: last activity (None when absent) and
\* deviation count (-1 when absent).
Entry(obj, c) ==
    [ last |-> IF HasKey(obj.case_dict, c) THEN Value(obj.case_dict, c)
               ELSE None,
      dev  |-> IF c \in DOMAIN obj.dev_dict THEN obj.dev_dict[c] ELSE -1 ]

\* The store of an object as a mapping, the order of its keys dropped.
StoreMap(obj) == [c \in Cases |-> Entry(obj, c)]

\* The pairs of distinct cases, each pair once.
CasePairs == {pair \in SUBSET Cases : Cardinality(pair) = 2}

\* C5: the store is insensitive to the interleaving of distinct cases:
\* what it holds for a case is what that case's own events alone produce,
\* and two receives of events with different case ids commute.
C5_InterleavingInsensitive ==
    /\ \A c \in Cases : Entry(self, c) = Entry(Alone(c), c)
    /\ \A pair \in CasePairs : \A a1, a2 \in Labels \cup {None} :
          LET e1 == MkEvent(CHOOSE c \in pair : TRUE, a1)
              e2 == MkEvent(CHOOSE c \in pair : c # e1[case_id_key], a2)
              s12 == receive(receive(Call(self), e1), e2).self
              s21 == receive(receive(Call(self), e2), e1).self
          IN  StoreMap(s12) = StoreMap(s21)

\* C5 witness: c2 was opened before c1 and its second event came after
\* c1 was opened, so an event of c1 lies between two events of c2.
C5_Witness ==
    /\ KeyList(self.case_dict) = <<"c2", "c1">>
    /\ Len(trace["c2"]) = 2 /\ Len(trace["c1"]) = 1
    /\ IsKnown(trace["c2"][1])
    /\ op.name = "receive" /\ op.case = "c2" /\ ~op.dropped
    /\ self.dev_dict["c2"] >= 1

\* The orders in which the cases of S can be taken.
Orders(S) ==
    { p \in [1..Cardinality(S) -> S] :
        \A i, j \in 1..Cardinality(S) : p[i] = p[j] => i = j }

\* terminate called on the cases of order, one call after the other; the
\* verdicts are kept per case.
RECURSIVE TerminateInOrder(_, _, _)
TerminateInOrder(x, order, verdicts) ==
    IF order = << >> THEN [self |-> x.self, raised |-> x.raised,
                           verdicts |-> verdicts]
    ELSE LET y == terminate([x EXCEPT !.ret = None], Head(order))
         IN  TerminateInOrder(y, Tail(order),
                              [verdicts EXCEPT ![Head(order)] = y.ret])

\* The verdict of an open case by its definition: the deviation count is 0
\* after the end-activity check.
EndVerdict(c) ==
    LET extra == IF Value(self.case_dict, c) \in self.end_activities
                 THEN 0 ELSE 1
    IN  IF self.dev_dict[c] + extra = 0 THEN "True" ELSE "False"

\* C6: terminate_all closes every open case with the verdict terminate
\* gives it, leaves the store that terminate of each open case, in any
\* order, leaves, and afterwards no case is open.
C6_TerminateAllIsEachTerminate ==
    LET all == terminate_all(Call(self))
        none == [c \in Cases |-> None]
    IN  /\ all.raised = None
        /\ all.self.case_dict = << >>
        /\ {all.calls[i].case : i \in 1..Len(all.calls)} = OpenCases
        /\ Len(all.calls) = Cardinality(OpenCases)
        /\ \A i \in 1..Len(all.calls) :
              all.calls[i].ret = EndVerdict(all.calls[i].case)
        /\ \A p \in Orders(OpenCases) :
              LET each == TerminateInOrder(Call(self), p, none)
              IN  /\ each.self = all.self
                  /\ each.raised = None
                  /\ \A i \in 1..Len(all.calls) :
                        each.verdicts[all.calls[i].case] = all.calls[i].ret
        /\ op.name = "terminate_all" => OpenCases = {}

\* C6 witness: terminate_all has closed two open cases, one as fit and one
\* as not fit.
C6_Witness ==
    /\ op.name = "terminate_all" /\ Len(calls) = 2
    /\ calls[1].ret = "False" /\ calls[2].ret = "True"
    /\ OpenCases = {}

\* The deviation count stored for a case, -1 when there is none.
Dev(c) == IF c \in DOMAIN self.dev_dict THEN self.dev_dict[c] ELSE -1

\* C7: the records of get_diagnostics_dataframe are one per open case and
\* none for any other case (none for a terminated one), as many as there
\* are open cases, each with the boolean get_status returns for the case.
C7_SnapshotIsOpenCases ==
    LET d == get_diagnostics_dataframe(Call(self))
        rows == d.diagn_stream
    IN  /\ d.raised = None
        /\ {rows[i].case : i \in 1..Len(rows)} = OpenCases
        /\ Len(rows) = Cardinality(OpenCases)
        /\ \A i \in 1..Len(rows) :
              /\ rows[i].is_fit \in {"True", "False"}
              /\ rows[i].is_fit = "True" <=> Dev(rows[i].case) = 0
              /\ rows[i].is_fit = get_status(Call(self), rows[i].case).ret
              /\ verdict[rows[i].case] = None
        /\ op.name = "get_diagnostics_dataframe" => diagn = rows

\* C7 witness: the snapshot has been taken with c1 terminated, and holds
\* the one record of c2, open and not fit.
C7_Witness ==
    /\ op.name = "get_diagnostics_dataframe"
    /\ verdict["c1"] # None
    /\ diagn = <<[case |-> "c2", is_fit |-> "False"]>>

\* All events of the lifetime carried unknown activities.
OnlyUnknown(tr) == tr # << >> /\ \A i \in 1..Len(tr) : ~IsKnown(tr[i])

\* C8: get_status returns True iff the case is open with deviation count
\* 0, False iff it is open with a count of at least 1, and None iff it is
\* not open, as for a case that received unknown activities only.
C8_GetStatusThreeValued ==
    /\ \A c \in Cases :
          LET g == get_status(Call(self), c)
          IN  /\ g.raised = None
              /\ g.ret \in {"True", "False", None}
              /\ g.ret = "True" <=> (c \in OpenCases /\ Dev(c) = 0)
              /\ g.ret = "False" <=> (c \in OpenCases /\ Dev(c) >= 1)
              /\ g.ret = None <=> c \notin OpenCases
              /\ (verdict[c] = None /\ OnlyUnknown(trace[c])) => g.ret = None
    /\ op.name = "get_status" =>
          /\ ret = "True" <=> (op.case \in OpenCases /\ Dev(op.case) = 0)
          /\ ret = "False" <=> (op.case \in OpenCases /\ Dev(op.case) >= 1)
          /\ ret = None <=> op.case \notin OpenCases

\* C8 witness: get_status has returned None for a case that received two
\* unknown activities and nothing else.
C8_Witness ==
    /\ op.name = "get_status" /\ op.case = "c1" /\ ret = None
    /\ verdict["c1"] = None /\ OnlyUnknown(trace["c1"])
    /\ Len(trace["c1"]) = 2 /\ Dev("c1") >= 1

Malformed(event) ==
    Field(event, case_id_key) = None \/ Field(event, activity_key) = None

\* C9: receive of an event whose case or activity is absent or None leaves
\* case_dict and dev_dict as they are, and with them every get_status.
C9_MalformedEventDropped ==
    \A event \in Events :
        Malformed(event) =>
            LET r == receive(Call(self), event)
            IN  /\ r.self.case_dict = self.case_dict
                /\ r.self.dev_dict = self.dev_dict
                /\ r.raised = None
                /\ \A c \in Cases :
                      get_status(r, c).ret = get_status(Call(self), c).ret

\* C9 witness: an event of the open case c1 without an activity has been
\* dropped.
C9_Witness ==
    /\ op.name = "receive" /\ op.dropped /\ op.case = "c1"
    /\ "c1" \in OpenCases /\ Dev("c1") = 1

\* C10: receive raises nothing, whatever the event and the state: every
\* lookup it makes in dev_dict or case_dict hits an entry.
C10_ReceiveNeverRaises ==
    /\ op.name = "receive" => raised = None
    /\ \A event \in Events : receive(Call(self), event).raised = None

\* C10 witness: a second unknown activity has been received for a case
\* that was never opened, while the other case is open with a deviation.
C10_Witness ==
    /\ op.name = "receive" /\ ~op.dropped /\ op.case = "c1"
    /\ raised = None
    /\ "c1" \notin OpenCases /\ Len(trace["c1"]) = 2
    /\ "c2" \in OpenCases /\ Dev("c2") = 1

\* A newly constructed object with the footprints of self.
Fresh == Call(Construct(self.footprints))

\* The event sequences tried on a terminated case: one event, or one
\* unknown activity followed by one event.
ShortTraces ==
    {<<a>> : a \in Labels}
        \cup {<<u, a>> : u \in Labels \ self.footprints.activities, a \in Labels}

\* C11: a terminated case starts a fresh lifetime on its next event: what
\* the store holds for it after terminate and a sequence of events is what
\* a new object holds for a never-seen case after the same events (the
\* first recognized activity is checked as a start, the count restarts).
C11_TerminatedCaseStartsFresh ==
    /\ (op.name = "receive" /\ op.reopens) =>
          /\ Len(trace[op.case]) = 1
          /\ Entry(self, op.case) =
                 Entry(ReceiveAll(Fresh, op.case, trace[op.case]).self, op.case)
    /\ \A c \in OpenCases : \A tr \in ShortTraces :
          LET t == terminate(Call(self), c)
          IN  Entry(ReceiveAll(t, c, tr).self, c)
                  = Entry(ReceiveAll(Fresh, c, tr).self, c)

\* C11 witness: c1, terminated as not fit, has been reopened by a start
\* activity and is open with no deviation, c2 being open.
C11_Witness ==
    /\ op.name = "receive" /\ op.reopens /\ op.case = "c1"
    /\ trace["c1"][1] \in self.footprints.start_activities
    /\ Entry(self, "c1") = [last |-> trace["c1"][1], dev |-> 0]
    /\ "c2" \in OpenCases

\* The deviations receive of (c, a) adds to the count of the open case c.
Added(c, a) ==
    receive(Call(self), MkEvent(c, a)).self.dev_dict[c] - self.dev_dict[c]

\* C12 as stated: for an open case with last activity p, a recognized
\* activity a is accepted without a deviation when (p, a) or (a, p) is a
\* parallel pair or (p, a) is a sequence pair, and counts one deviation
\* otherwise.
C12_ParallelEitherOrientation ==
    \A c \in OpenCases : \A a \in self.footprints.activities :
        LET p == Value(self.case_dict, c)
            legal == \/ <<p, a>> \in self.footprints.sequence
                     \/ <<p, a>> \in self.footprints.parallel
                     \/ <<a, p>> \in self.footprints.parallel
        IN  Added(c, a) = IF legal THEN 0 ELSE 1

\* C12 amended: for an open case with last activity p, a recognized
\* activity a is accepted without a deviation iff the pair (p, a) itself
\* is in the sequence or in the parallel collection as supplied, and counts
\* one deviation otherwise; (a, p) being a parallel pair does not help.
C12_SuppliedOrientationOnly ==
    \A c \in OpenCases : \A a \in self.footprints.activities :
        LET p == Value(self.case_dict, c)
            legal == \/ <<p, a>> \in self.footprints.sequence
                     \/ <<p, a>> \in self.footprints.parallel
        IN  Added(c, a) = IF legal THEN 0 ELSE 1

\* C12 witness: c1 followed a parallel pair as supplied without deviation
\* and then the same pair the other way round, which counted one.
C12_Witness ==
    /\ op.name = "receive" /\ op.case = "c1" /\ Len(trace["c1"]) = 3
    /\ trace["c1"][1] \in self.footprints.start_activities
    /\ <<trace["c1"][1], trace["c1"][2]>> \in self.footprints.parallel
    /\ trace["c1"][3] = trace["c1"][1]
    /\ <<trace["c1"][2], trace["c1"][3]>> \notin AllowedPairs
    /\ "c1" \in OpenCases /\ Dev("c1") = 1

\* C13: the case ids with a deviation-count entry are those with a
\* last-activity entry, in every state, so the store is empty after
\* terminate_all.
C13_OneEntryPerOpenCase ==
    /\ DOMAIN self.dev_dict = OpenCases
    /\ op.name = "terminate_all" =>
          (self.case_dict = << >> /\ self.dev_dict = EmptyDict)

\* The events of tr that carry an unknown activity.
Unknowns(tr) == SelectSeq(tr, LAMBDA a : ~IsKnown(a))

\* C14: an event with an unknown activity adds exactly one to the count of
\* its case (0 when the case has none): a case that received k unknown
\* activities and nothing else holds k, and an open case holds at least
\* the number of unknown activities of its lifetime.
C14_UnknownActivityAddsOne ==
    /\ \A c \in Cases : \A a \in Labels \ self.footprints.activities :
          receive(Call(self), MkEvent(c, a)).self.dev_dict[c]
              = (IF c \in DOMAIN self.dev_dict THEN self.dev_dict[c] ELSE 0) + 1
    /\ \A c \in Cases :
          verdict[c] = None =>
              /\ OnlyUnknown(trace[c]) => Dev(c) = Len(trace[c])
              /\ c \in OpenCases => Dev(c) >= Len(Unknowns(trace[c]))

\* The last recognized activity of tr (tr holds one).
LastRecognized(tr) == Recognized(tr)[Len(Recognized(tr))]

\* C15: an unknown activity leaves the last activity of its case as it is
\* and creates none: the stored last activity is the last recognized
\* activity of the lifetime, the next recognized activity is checked as a
\* pair with it, and terminate checks it against end_activities.
C15_UnknownKeepsLastActivity ==
    /\ \A c \in Cases : \A a \in Labels \ self.footprints.activities :
          receive(Call(self), MkEvent(c, a)).self.case_dict = self.case_dict
    /\ \A c \in Cases :
          verdict[c] = None =>
              /\ c \in OpenCases <=> Recognized(trace[c]) # << >>
              /\ c \in OpenCases =>
                    LET p == LastRecognized(trace[c])
                    IN  /\ Value(self.case_dict, c) = p
                        /\ \A a \in self.footprints.activities :
                              Added(c, a) = IF <<p, a>> \in AllowedPairs
                                            THEN 0 ELSE 1
                        /\ terminate(Call(self), c).ret = "True" <=>
                              (Dev(c) = 0
                               /\ p \in self.footprints.end_activities)

\* C15 witness: c1 received a start activity, an unknown activity and an
\* activity allowed after the first; only the unknown one was counted.
C15_Witness ==
    /\ op.name = "receive" /\ op.case = "c1" /\ Len(trace["c1"]) = 3
    /\ trace["c1"][1] \in self.footprints.start_activities
    /\ IsKnown(trace["c1"][1]) /\ ~IsKnown(trace["c1"][2])
    /\ <<trace["c1"][1], trace["c1"][3]>> \in AllowedPairs
    /\ Entry(self, "c1") = [last |-> trace["c1"][3], dev |-> 1]

\* C16: terminate of an open case returns True iff the deviation count,
\* one more when the last activity is no end activity, is 0, and False
\* otherwise; it removes the last-activity and the deviation-count entry of
\* the case whatever the verdict and leaves the entries of the other cases
\* as they are.
C16_TerminateEffect ==
    [][\A c \in Cases :
          (op'.name = "terminate" /\ op'.case = c /\ c \in OpenCases) =>
              LET extra == IF Value(self.case_dict, c) \in self.end_activities
                           THEN 0 ELSE 1
              IN  /\ ret' = IF self.dev_dict[c] + extra = 0
                            THEN "True" ELSE "False"
                  /\ raised' = None
                  /\ c \notin OpenCases'
                  /\ c \notin DOMAIN self'.dev_dict
                  /\ \A d \in Cases \ {c} : Entry(self', d) = Entry(self, d)
                  /\ KeyList(self'.case_dict)
                        = SelectSeq(KeyList(self.case_dict), LAMBDA k : k # c)]_vars

\* C16 witness: c1, without deviation but stopped on an activity that is
\* no end activity, has been terminated as not fit and removed, and the
\* entry of c2 is still there.
C16_Witness ==
    /\ op.name = "terminate" /\ op.case = "c1" /\ ret = "False"
    /\ WellFormed /\ FitSoFar(trace["c1"]) /\ ~EndsLegally(trace["c1"])
    /\ Entry(self, "c1") = [last |-> None, dev |-> -1]
    /\ "c2" \in OpenCases /\ Dev("c2") = 1

\* The deviation count kept for c, 0 when none is kept.
Count(obj, c) == IF c \in DOMAIN obj.dev_dict THEN obj.dev_dict[c] ELSE 0

\* C17: for a case that is not open, a recognized activity that is no start
\* activity adds one to the deviation count of the case and opens the case
\* with that activity as last activity: get_status then returns False, the
\* snapshot holds the case, and the next recognized activity is checked as
\* a transition from it.
C17_IllegalStartAddsOne ==
    \A c \in Cases \ OpenCases :
        \A a \in self.activities \ self.start_activities :
            LET r    == receive(Call(self), MkEvent(c, a))
                rows == get_diagnostics_dataframe(r).diagn_stream
            IN  /\ r.raised = None
                /\ Count(r.self, c) = Count(self, c) + 1
                /\ Entry(r.self, c).last = a
                /\ get_status(r, c).ret = "False"
                /\ \E i \in 1..Len(rows) : rows[i].case = c
                /\ \A b \in self.activities :
                      Count(receive(r, MkEvent(c, b)).self, c)
                          = Count(r.self, c)
                              + (IF <<a, b>> \in AllowedPairs THEN 0 ELSE 1)

\* C18: after receive of a recognized activity a the last activity of the
\* case is a, whether a was legal or not; for an open case with last
\* activity p the count grows by exactly one when (p, a) is not allowed and
\* not at all otherwise; a following recognized activity b is checked as
\* the pair (a, b); every stored last activity belongs to the vocabulary.
C18_LastActivityIsLatestRecognized ==
    [][\A c \in Cases :
          LET tr == trace'[c]
              a  == tr[Len(tr)]
          IN  (/\ op'.name = "receive" /\ op'.case = c /\ ~op'.dropped
               /\ IsKnown(a)) =>
                  /\ Entry(self', c).last = a
                  /\ c \in OpenCases =>
                        Count(self', c)
                            = Count(self, c)
                                + (IF <<Entry(self, c).last, a>> \in AllowedPairs
                                   THEN 0 ELSE 1)
                  /\ \A b \in self.activities :
                        LET r == receive(Call(self'), MkEvent(c, b))
                        IN  /\ Entry(r.self, c).last = b
                            /\ Count(r.self, c)
                                  = Count(self', c)
                                      + (IF <<a, b>> \in AllowedPairs
                                         THEN 0 ELSE 1)
                  /\ \A d \in OpenCases' :
                        Entry(self', d).last \in self.footprints.activities]_vars

\* C18 witness: c1 started legally with p, went on with a where (p, a) is
\* not allowed, then with b where (a, b) is allowed and (p, b) is not; it
\* holds b as last activity and one deviation.
C18_Witness ==
    /\ op.name = "receive" /\ op.case = "c1"
    /\ Len(trace["c1"]) = 3
    /\ \A i \in 1..3 : IsKnown(trace["c1"][i])
    /\ trace["c1"][1] \in self.footprints.start_activities
    /\ <<trace["c1"][1], trace["c1"][2]>> \notin AllowedPairs
    /\ <<trace["c1"][2], trace["c1"][3]>> \in AllowedPairs
    /\ <<trace["c1"][1], trace["c1"][3]>> \notin AllowedPairs
    /\ Entry(self, "c1") = [last |-> trace["c1"][3], dev |-> 1]

\* C19: a case whose events so far all carried unknown activities is not
\* open: get_status and terminate return None for it and change nothing,
\* get_diagnostics_dataframe has no record for it, and terminate_all makes
\* no terminate call for it and leaves what is stored for it in place.
C19_UnknownOnlyCaseHasNoRecord ==
    \A c \in Cases :
        (verdict[c] = None /\ OnlyUnknown(trace[c])) =>
            LET g    == get_status(Call(self), c)
                t    == terminate(Call(self), c)
                rows == get_diagnostics_dataframe(Call(self)).diagn_stream
                all  == terminate_all(Call(self))
            IN  /\ c \notin OpenCases
                /\ g.ret = None /\ g.raised = None /\ g.self = self
                /\ t.ret = None /\ t.raised = None /\ t.self = self
                /\ \A i \in 1..Len(rows) : rows[i].case # c
                /\ \A i \in 1..Len(all.calls) : all.calls[i].case # c
                /\ Entry(all.self, c) = Entry(self, c)
                /\ (op.name \in {"get_status", "terminate"} /\ op.case = c)
                      => ret = None
                /\ op.name = "terminate_all" =>
                      /\ \A i \in 1..Len(calls) : calls[i].case # c
                      /\ c \in DOMAIN self.dev_dict

\* C19 witness: terminate_all has terminated c2 and nothing else while c1
\* had received unknown activities only; the count of c1 is still stored.
C19_Witness ==
    /\ op.name = "terminate_all"
    /\ verdict["c1"] = None /\ OnlyUnknown(trace["c1"])
    /\ Len(calls) = 1 /\ calls[1].case = "c2"
    /\ Entry(self, "c1") = [last |-> None, dev |-> 1]

\* C20: get_status, for a case open or not, and get_diagnostics_dataframe
\* leave case_dict and dev_dict as they are and close no case; after them,
\* and after further such calls, get_status and terminate return for every
\* case what they would have returned before.
C20_QueriesAreReadOnly ==
    [][op'.name \in {"get_status", "get_diagnostics_dataframe"} =>
          /\ raised' = None
          /\ self'.case_dict = self.case_dict
          /\ self'.dev_dict = self.dev_dict
          /\ self' = self
          /\ OpenCases' = OpenCases
          /\ \A c \in Cases :
                /\ get_status(Call(self'), c).ret = get_status(Call(self), c).ret
                /\ terminate(Call(self'), c).ret = terminate(Call(self), c).ret
                /\ \A d \in Cases :
                      LET more == get_diagnostics_dataframe(
                                      get_status(get_status(Call(self'), d), d))
                      IN  /\ more.self = self
                          /\ terminate(more, c).ret
                                = terminate(Call(self), c).ret]_vars

\* C20 witness: get_diagnostics_dataframe has reported one open case as fit
\* and the other as not fit, and both are still open with their counts.
C20_Witness ==
    /\ op.name = "get_diagnostics_dataframe"
    /\ diagn = <<[case |-> "c1", is_fit |-> "False"],
                 [case |-> "c2", is_fit |-> "True"]>>
    /\ OpenCases = {"c1", "c2"}
    /\ Dev("c1") = 2 /\ Dev("c2") = 0

====
